---- MODULE Spec2Model ----
(***************************************************************************)
(* Water-cycle visualisation (old-script.js, class WaterCycleSimulation):  *)
(* the timer-driven cycle state machine, the climate parameters, the       *)
(* play/pause flag, the stage shown by the UI and the evaporation pool.    *)
(*                                                                         *)
(* Units.  Time is counted in whole seconds.  Heights are counted in       *)
(* half-units of the scene (0.5 -> 1, 30 -> 60), so that the spawn         *)
(* altitude 0.5 of an evaporation particle is a whole number.              *)
(* The evaporation pool is represented by one particle: every particle of  *)
(* a pool is updated by the same loop body and no particle reads another.  *)
(***************************************************************************)
EXTENDS Integers, Sequences, FiniteSets, TLC

VARIABLES
    initPc,        \* position of the asynchronous init(): awaitTrees, running, failed
    isPlaying,     \* this.isPlaying
    temperature,   \* this.params.temperature
    windSpeed,     \* this.params.windSpeed
    cycleState,    \* this.cycleState
    cycleTimer,    \* this.cycleTimer
    stageShown,    \* the stage the UI shows (set by updateCycleStage)
    notifyCount,   \* calls of updateCycleStage made by the last handler
    progress,      \* the progress value last handed to the particle updates, <<num, den>>
    evapPool,      \* altitudes of the evaporation pool, <<>> until the pool is created
    elapsedTotal,  \* history: sum of the deltas ticked since (EVAPORATION, 0), saturating
    lastEvent,     \* history: the handler that ran last
    variant,       \* which of the three programs runs: old, esm, classic
    sample,        \* how many sprites / particles of each pool the state represents
    opacity,       \* material opacities, one field per material
    clouds,        \* positions of the cloud sprites
    pools,         \* positions (and lifetimes) of the other particle pools
    fault,         \* the exception the last handler raised, or none
    humidity,      \* this.params.humidity (ESM variant)
    climateParams, \* this.climateParams (classic variant)
    terrain,       \* heights of the terrain mesh's vertices (classic variant)
    clockTime,     \* wall time since the last clock.getDelta(), and the paused part of it
    glow           \* which matter-state labels carry the class glow (set by updateCycleStage)

vars == <<initPc, isPlaying, temperature, windSpeed, cycleState, cycleTimer,
          stageShown, glow, notifyCount, progress, evapPool, elapsedTotal, lastEvent,
          variant, sample, opacity, clouds, pools, fault, humidity, climateParams,
          terrain, clockTime>>

\* the state of the two other variants, which old-script.js does not have
otherVariants == <<variant, sample, humidity, climateParams, terrain, clockTime>>

\* the scene of old-script.js next to its clock
oldScene == <<opacity, clouds, pools, fault>>

(***************************************************************************)
(* Inputs.                                                                 *)
(***************************************************************************)
\* deltas (seconds) a frame can carry: an ordinary step, a step that
\* overshoots a fresh EVAPORATION phase by one second, and a whole period
\* (a tab resumed after being backgrounded)
SmallDelta == 5
OvershootDelta == 16
HugeDelta == 53

Deltas == {0, SmallDelta, OvershootDelta, HugeDelta}

\* slider values; 15 and 10 are the defaults the code sets.  The listeners
\* store parseFloat(e.target.value) as it comes.  The evaporation step is a
\* whole number of half-units for these temperatures: 1, 0 and -1.
Temperatures == {-45, -15, 15}
WindSpeeds == {0, 10}

(***************************************************************************)
(* The cycle state machine.                                                *)
(***************************************************************************)
CycleStates == {"EVAPORATION", "CONDENSATION", "PRECIPITATION", "COLLECTION"}

cycleDurations ==
    [EVAPORATION |-> 15, CONDENSATION |-> 10, PRECIPITATION |-> 20, COLLECTION |-> 8]

\* a switch whose first case names the wrong successor
NextCycleStateSkipping(s) ==
    CASE s = "EVAPORATION" -> "PRECIPITATION"
      [] s = "CONDENSATION" -> "PRECIPITATION"
      [] s = "PRECIPITATION" -> "COLLECTION"
      [] s = "COLLECTION" -> "EVAPORATION"

\* a switch whose last case stays in COLLECTION
NextCycleStateTerminal(s) ==
    CASE s = "EVAPORATION" -> "CONDENSATION"
      [] s = "CONDENSATION" -> "PRECIPITATION"
      [] s = "PRECIPITATION" -> "COLLECTION"
      [] s = "COLLECTION" -> "COLLECTION"

\* the switch of updateWaterCycle
NextCycleState(s) ==
    CASE s = "EVAPORATION" -> "CONDENSATION"
      [] s = "CONDENSATION" -> "PRECIPITATION"
      [] s = "PRECIPITATION" -> "COLLECTION"
      [] s = "COLLECTION" -> "EVAPORATION"

\* an assignment in place of the accumulation
AddDeltaReplacing(t, d) == d

\* this.cycleTimer += delta
AddDelta(t, d) == t + d

\* the comparison with >= in place of >
TimerReaches(t, dur) == t >= dur

\* the comparison one second late
TimerExceedsLate(t, dur) == t > dur + 1

\* if (this.cycleTimer > currentDuration)
TimerExceeds(t, dur) == t > dur

RECURSIVE Gcd(_, _)
Gcd(a, b) == IF b = 0 THEN a ELSE Gcd(b, a % b)

\* a / b as a fraction in lowest terms
Fraction(a, b) == LET g == Gcd(a, b) IN <<a \div g, b \div g>>

\* the clock part of updateWaterCycle(delta): the new state, the new timer,
\* the number of updateCycleStage calls and the progress handed on
\* (progress divides by the duration read before the transition)
UpdatedCycle(s, t, d) ==
    LET added == AddDelta(t, d)
        currentDuration == cycleDurations[s]
        over == TimerExceeds(added, currentDuration)
        newTimer == IF over THEN 0 ELSE added
    IN  [cycleState |-> IF over THEN NextCycleState(s) ELSE s,
         cycleTimer |-> newTimer,
         notified |-> IF over THEN 1 ELSE 0,
         progress |-> Fraction(newTimer, currentDuration)]

(***************************************************************************)
(* The evaporation pool.                                                   *)
(***************************************************************************)
EvapSpawnY == 1       \* 0.5
EvapCeiling == 60     \* 30

\* an altitude is followed down to SinkDepth half-units below the spawn
\* altitude; a lower one is recorded as that depth
SinkDepth == 2

\* velocities[i*3+1] * (1 + temperature / 15) for the upward velocity 0.25
\* (createEvaporationParticles draws it from [0.1, 0.3)), in half-units:
\* 2 * 0.25 * (15 + temperature) / 15
EvapStep(temp) == (15 + temp) \div 30

\* the loop body of updateEvaporation for one particle
RaisedParticle(y, temp) ==
    LET moved == y + EvapStep(temp)
    IN  IF moved > EvapCeiling THEN EvapSpawnY
        ELSE IF moved < EvapSpawnY - SinkDepth THEN EvapSpawnY - SinkDepth
        ELSE moved

\* an update that moves the pool in every phase
updateEvaporationUngated(pool, isActive, temp) ==
    [i \in DOMAIN pool |-> RaisedParticle(pool[i], temp)]

\* updateEvaporation(isActive, progress) on the pool's altitudes
updateEvaporation(pool, isActive, temp) ==
    IF isActive
    THEN [i \in DOMAIN pool |-> RaisedParticle(pool[i], temp)]
    ELSE pool

\* createEvaporationParticles: every particle starts at altitude 0.5
createEvaporationParticles == <<EvapSpawnY>>

(***************************************************************************)
(* The clouds, the rain pool and the opacities of old-script.js.           *)
(* Horizontal positions are counted in fifths of a scene unit: the rain    *)
(* drifts by windSpeed / 50 = 0.2 per frame at wind speed 10.  An opacity  *)
(* k * Math.sin(progress * Math.PI) is recorded as the progress it was     *)
(* computed from; <<0, 1>> is the opacity 0 (and the cloud base 0.6).      *)
(***************************************************************************)
SceneEdge == 500      \* 100
CloudBase == 60       \* 30
RainFall == 1         \* 0.5
RainFloor == -20      \* -10

Zero == <<0, 1>>

\* the opacities the three materials are created with
createOpacities == [evaporation |-> Zero, clouds |-> Zero, rain |-> Zero]

\* createClouds: the sprites are placed at random; a sampled sprite is at
\* x = 0 on the lowest cloud altitude
createClouds(n) == [i \in 1..n |-> [x |-> 0, y |-> CloudBase]]

\* createRainParticles: a sampled particle starts at x = 0, y = 30 and
\* falls with the velocity -0.5
createRainParticles(n) == [i \in 1..n |-> [x |-> 0, y |-> CloudBase]]

\* cloud.position.x += delta * windSpeed / 5, with the wrap at the edge
DriftedCloud(c, d, wind) ==
    LET x == c.x + d * wind
    IN  [c EXCEPT !.x = IF x > SceneEdge THEN -SceneEdge ELSE x]

\* what the downward ray from (x, 50, z) can return: no intersection, or a
\* point of the terrain; the terrain spans [-100, 100] and its height is
\* simplex noise, so any sampled height can come back
TerrainHeights == {-20, 0, 20}

RaycastResults(x) ==
    {[hit |-> FALSE, y |-> 0]}
    \cup {[hit |-> TRUE, y |-> h] : h \in IF x >= -SceneEdge /\ x <= SceneEdge
                                             THEN TerrainHeights ELSE {}}

\* clouds.children[Math.floor(Math.random() * clouds.children.length)]:
\* an index of the list, or 0 for the undefined entry of an empty list
CloudPicks(cs) == IF cs = <<>> THEN {0} ELSE DOMAIN cs

\* a loop body without the `else if` branch of the floor
FallenParticleNoFloor(p, wind, ray, cs, pick) ==
    LET moved == [x |-> p.x + wind \div 10, y |-> p.y - RainFall]
        landed == ray.hit /\ moved.y < ray.y
    IN  IF landed
        THEN IF pick = 0
             THEN [particle |-> moved, fault |-> "TypeError"]
             ELSE [particle |-> [x |-> cs[pick].x, y |-> cs[pick].y], fault |-> "none"]
        ELSE [particle |-> moved, fault |-> "none"]

\* the loop body of updatePrecipitation for one particle, given the ray's
\* result and the picked cloud: reading .position of the undefined entry
\* throws after the particle has been moved
FallenParticle(p, wind, ray, cs, pick) ==
    LET moved == [x |-> p.x + wind \div 10, y |-> p.y - RainFall]
        landed == ray.hit /\ moved.y < ray.y
    IN  IF landed \/ moved.y < RainFloor
        THEN IF pick = 0
             THEN [particle |-> moved, fault |-> "TypeError"]
             ELSE [particle |-> [x |-> cs[pick].x, y |-> cs[pick].y], fault |-> "none"]
        ELSE [particle |-> moved, fault |-> "none"]

\* updatePrecipitation(isActive, progress) on a pool of at most one sampled
\* particle: the outcomes the random picks allow
updatePrecipitation(pool, isActive, wind, cs) ==
    IF ~isActive \/ pool = <<>>
    THEN {[pool |-> pool, fault |-> "none"]}
    ELSE {[pool |-> <<FallenParticle(pool[1], wind, ray, cs, pick).particle>>,
           fault |-> FallenParticle(pool[1], wind, ray, cs, pick).fault] :
             ray \in RaycastResults(pool[1].x + wind \div 10), pick \in CloudPicks(cs)}

\* the opacities updateEvaporation, updateCondensation and
\* updatePrecipitation assign for the phase s and the progress f
UpdatedOpacities(s, f) ==
    [evaporation |-> IF s = "EVAPORATION" THEN f ELSE Zero,
     clouds |-> f,
     rain |-> IF s = "PRECIPITATION" THEN f ELSE Zero]

(***************************************************************************)
(* History.                                                                *)
(***************************************************************************)
Period == cycleDurations["EVAPORATION"] + cycleDurations["CONDENSATION"]
          + cycleDurations["PRECIPITATION"] + cycleDurations["COLLECTION"]

\* the value of elapsedTotal in a run that keeps no account of the deltas
Untracked == Period + 2

\* elapsedTotal counts up to Period and then only records "more than Period"
AddTotal(total, d) ==
    IF total = Untracked THEN Untracked
    ELSE IF total + d > Period THEN Period + 1 ELSE total + d

\* the values the state of the other variants has while old-script.js runs
\* the glows updateCycleStage toggles on the solid, liquid and gas labels
Glows(s, temp) ==
    [solid |-> temp < 0,
     liquid |-> s \in {"PRECIPITATION", "COLLECTION"},
     gas |-> s \in {"EVAPORATION", "CONDENSATION"}]

\* no label glows before the first call of updateCycleStage
NoGlow == [solid |-> FALSE, liquid |-> FALSE, gas |-> FALSE]

\* a clock that has just been read
NoClockTime == [elapsed |-> 0, paused |-> 0]

NoClimate ==
    [temperature |-> 0, temperatureChange |-> 0, precipitationIntensity |-> 0,
     evaporationRate |-> 0, iceMelting |-> 0, seaLevel |-> 0]

(***************************************************************************)
(* Operations.                                                             *)
(***************************************************************************)
\* the constructor, run up to the await in init(): the listeners are set up,
\* the clouds and the particle pools are not yet created
\* (the materials do not exist yet; opacity holds the values they are
\* created with).  smp says how many sprites and particles are followed,
\* total is 0 or Untracked.
OldConstructed(smp, total) ==
    /\ initPc = "awaitTrees"
    /\ isPlaying = TRUE
    /\ temperature = 15
    /\ windSpeed = 10
    /\ cycleState = "EVAPORATION"
    /\ cycleTimer = 0
    /\ stageShown = "NONE"
    /\ glow = NoGlow
    /\ notifyCount = 0
    /\ progress = <<0, 1>>
    /\ evapPool = <<>>
    /\ elapsedTotal = total
    /\ lastEvent = "constructor"
    /\ variant = "old"
    /\ sample = smp
    /\ opacity = createOpacities
    /\ clouds = <<>>
    /\ pools = [rain |-> <<>>]
    /\ fault = "none"
    /\ humidity = 0
    /\ climateParams = NoClimate
    /\ terrain = <<>>
    /\ clockTime = NoClockTime

\* the clock and one evaporation particle are followed
Init == OldConstructed([evaporation |-> 1, clouds |-> 0, rain |-> 0], 0)

\* updateWaterCycle(delta) applied to the pool `pool`, followed by `extra`
\* further calls of updateCycleStage
updateWaterCycle(d, pool, rain, cs, extra) ==
    LET u == UpdatedCycle(cycleState, cycleTimer, d)
    IN  /\ cycleState' = u.cycleState
        /\ cycleTimer' = u.cycleTimer
        /\ progress' = u.progress
        /\ notifyCount' = u.notified + extra
        /\ stageShown' = IF u.notified + extra > 0 THEN u.cycleState ELSE stageShown
        /\ glow' = IF u.notified + extra > 0 THEN Glows(u.cycleState, temperature) ELSE glow
        /\ evapPool' = updateEvaporation(pool, u.cycleState = "EVAPORATION", temperature)
        /\ elapsedTotal' = AddTotal(elapsedTotal, d)
        /\ opacity' = UpdatedOpacities(u.cycleState, u.progress)
        /\ \E r \in updatePrecipitation(rain, u.cycleState = "PRECIPITATION",
                                         windSpeed, cs) :
              /\ pools' = [rain |-> r.pool]
              /\ fault' = r.fault

\* init() after createTrees resolved: the pools are created, the first frame
\* runs (animate()), and updateCycleStage() is called.  The first
\* clock.getDelta() starts the clock and returns 0.
InitContinue ==
    /\ initPc = "awaitTrees"
    /\ initPc' = "running"
    /\ lastEvent' = "init"
    /\ IF isPlaying
       THEN updateWaterCycle(0, SubSeq(createEvaporationParticles, 1, sample.evaporation),
                             createRainParticles(sample.rain),
                             createClouds(sample.clouds), 1)
       ELSE /\ evapPool' = SubSeq(createEvaporationParticles, 1, sample.evaporation)
            /\ pools' = [rain |-> createRainParticles(sample.rain)]
            /\ opacity' = createOpacities
            /\ fault' = "none"
            /\ notifyCount' = 1
            /\ stageShown' = cycleState
            /\ glow' = Glows(cycleState, temperature)
            /\ UNCHANGED <<cycleState, cycleTimer, progress, elapsedTotal>>
    /\ clouds' = [i \in 1..sample.clouds |->
                    DriftedCloud(createClouds(sample.clouds)[i], 0, windSpeed)]
    /\ UNCHANGED <<isPlaying, temperature, windSpeed>>
    /\ UNCHANGED otherVariants

\* init() rejected at `await this.createTrees()`: nothing after it runs
InitFail ==
    /\ initPc = "awaitTrees"
    /\ initPc' = "failed"
    /\ lastEvent' = "initFail"
    /\ UNCHANGED <<isPlaying, temperature, windSpeed, cycleState, cycleTimer,
                   stageShown, glow, notifyCount, progress, evapPool, elapsedTotal>>
    /\ UNCHANGED <<otherVariants, oldScene>>

\* animate(): one frame with clock delta d; an exception thrown by
\* updateWaterCycle ends the frame before the clouds are moved
animate(d) ==
    /\ initPc = "running"
    /\ IF ~isPlaying
       THEN UNCHANGED vars
       ELSE /\ updateWaterCycle(d, evapPool, pools.rain, clouds, 0)
            /\ clouds' = IF fault' = "none"
                         THEN [i \in DOMAIN clouds |-> DriftedCloud(clouds[i], d, windSpeed)]
                         ELSE clouds
            /\ lastEvent' = "tick"
            /\ UNCHANGED <<initPc, isPlaying, temperature, windSpeed>>
            /\ UNCHANGED otherVariants

\* the temperature slider's input listener
temperatureInput(v) ==
    /\ temperature' = v
    /\ notifyCount' = 0
    /\ lastEvent' = "temperature"
    /\ UNCHANGED <<initPc, isPlaying, windSpeed, cycleState, cycleTimer,
                   stageShown, glow, progress, evapPool, elapsedTotal>>
    /\ UNCHANGED <<otherVariants, oldScene>>

\* the wind slider's input listener
windInput(v) ==
    /\ windSpeed' = v
    /\ notifyCount' = 0
    /\ lastEvent' = "wind"
    /\ UNCHANGED <<initPc, isPlaying, temperature, cycleState, cycleTimer,
                   stageShown, glow, progress, evapPool, elapsedTotal>>
    /\ UNCHANGED <<otherVariants, oldScene>>

\* the resize, mouse and wheel listeners: they write the camera and the
\* renderer size only
cameraInput ==
    /\ notifyCount' = 0
    /\ lastEvent' = "camera"
    /\ UNCHANGED <<initPc, isPlaying, temperature, windSpeed, cycleState, cycleTimer,
                   stageShown, glow, progress, evapPool, elapsedTotal>>
    /\ UNCHANGED <<otherVariants, oldScene>>

\* a toggle that also restarts the phase timer
togglePlayPauseRestarting ==
    /\ isPlaying' = ~isPlaying
    /\ cycleTimer' = 0
    /\ notifyCount' = 0
    /\ lastEvent' = "toggle"
    /\ UNCHANGED <<initPc, temperature, windSpeed, cycleState,
                   stageShown, glow, progress, evapPool, elapsedTotal>>
    /\ UNCHANGED <<otherVariants, oldScene>>

togglePlayPause ==
    /\ isPlaying' = ~isPlaying
    /\ notifyCount' = 0
    /\ lastEvent' = "toggle"
    /\ UNCHANGED <<initPc, temperature, windSpeed, cycleState, cycleTimer,
                   stageShown, glow, progress, evapPool, elapsedTotal>>
    /\ UNCHANGED <<otherVariants, oldScene>>

\* a reset of the parameters alone
resetSimulationParamsOnly ==
    /\ temperature' = 15
    /\ windSpeed' = 10
    /\ notifyCount' = 1
    /\ stageShown' = cycleState
    /\ glow' = Glows(cycleState, 15)
    /\ lastEvent' = "reset"
    /\ UNCHANGED <<initPc, isPlaying, cycleState, cycleTimer, progress, evapPool,
                   elapsedTotal>>
    /\ UNCHANGED <<otherVariants, oldScene>>

\* a reset that does not call updateCycleStage
resetSimulationSilent ==
    /\ temperature' = 15
    /\ windSpeed' = 10
    /\ cycleState' = "EVAPORATION"
    /\ cycleTimer' = 0
    /\ notifyCount' = 0
    /\ elapsedTotal' = IF elapsedTotal = Untracked THEN Untracked ELSE 0
    /\ lastEvent' = "reset"
    /\ UNCHANGED <<initPc, isPlaying, stageShown, glow, progress, evapPool>>
    /\ UNCHANGED <<otherVariants, oldScene>>

resetSimulation ==
    /\ temperature' = 15
    /\ windSpeed' = 10
    /\ cycleState' = "EVAPORATION"
    /\ cycleTimer' = 0
    /\ notifyCount' = 1
    /\ stageShown' = "EVAPORATION"
    /\ glow' = Glows("EVAPORATION", 15)
    /\ elapsedTotal' = IF elapsedTotal = Untracked THEN Untracked ELSE 0
    /\ lastEvent' = "reset"
    /\ UNCHANGED <<initPc, isPlaying, progress, evapPool>>
    /\ UNCHANGED <<otherVariants, oldScene>>

Next ==
    \/ InitContinue
    \/ InitFail
    \/ \E d \in Deltas : animate(d)
    \/ \E v \in Temperatures : temperatureInput(v)
    \/ \E v \in WindSpeeds : windInput(v)
    \/ togglePlayPause
    \/ resetSimulation
    \/ cameraInput

Spec == Init /\ [][Next]_vars

\* a frame whose clock delta is positive
PositiveFrame == \E d \in Deltas \ {0} : animate(d)

\* the frame loop keeps running: animate() re-arms requestAnimationFrame
\* before anything else, and the clock has advanced when the next frame
\* reads it.  The account of the elapsed deltas is not kept.
InitLive == OldConstructed([evaporation |-> 1, clouds |-> 0, rain |-> 0], Untracked)

SpecLive == InitLive /\ [][Next]_vars /\ WF_vars(PositiveFrame)

(***************************************************************************)
(* The ESM variant (class WaterCycleSim): three climate parameters, a      *)
(* transpiration and an evaporation pool, two clouds; no cycle clock.      *)
(*                                                                         *)
(* Units.  Altitudes are counted in 1/42000 of a scene unit, so that the   *)
(* rise of a particle in one frame is a whole number for the sampled       *)
(* upward velocities (0.2 for transpiration, 0.1 for evaporation);         *)
(* horizontal positions in hundredths, for the sampled sideways velocity   *)
(* 0.02.  A horizontal position is followed up to DriftHorizon hundredths  *)
(* beyond the place the particle (or the cloud) starts from; a position    *)
(* beyond that is recorded as the horizon.  Nothing moves a followed       *)
(* object to the left, so a recorded horizon means "at or beyond".         *)
(* The opacity 0.3 + 0.3 * humidF (transpiration) or 0.2 + 0.3 * humidF    *)
(* (evaporation) is recorded as the fraction humidF.                       *)
(***************************************************************************)
EsmDelta == 50
DriftHorizon == 6

EsmDeltas == {0, EsmDelta}

\* slider values: the defaults 25, 50, 5 and the end of each range at which
\* the factors tempF, humidF and windF are 0
EsmTemperatures == {10, 25}
EsmHumidities == {50, 90}
EsmWindSpeeds == {0, 5}

EsmEvapSpawnY == 5040          \* 0.12
EsmEvapCeiling == 1050000      \* 25
EsmTranspCeiling == 1260000    \* 30

\* the lake at (2, -4), the tree emitter at (-10, ., 5) with a canopy top
\* sampled at altitude 8, the cloud deck at (0, 26, 0)
waterBodies == <<[x |-> 200]>>
treeEmitters == <<[x |-> -1000, y |-> 336000]>>
esmCreateClouds(n) == [i \in 1..n |-> [x |-> 0, origin |-> 0]]

\* createParticles: a sampled particle starts on its emitter / lake centre
esmCreateParticles(smp) ==
    [transpiration |-> [i \in 1..smp.transpiration |->
                          [x |-> treeEmitters[1].x, y |-> treeEmitters[1].y,
                           origin |-> treeEmitters[1].x]],
     evaporation |-> [i \in 1..smp.evaporation |->
                        [x |-> waterBodies[1].x, y |-> EsmEvapSpawnY,
                         origin |-> waterBodies[1].x]]]

\* x advanced by `step`, followed up to the horizon
Drifted(x, step, origin) ==
    IF x + step > origin + DriftHorizon THEN origin + DriftHorizon ELSE x + step

\* tVel[y] * dt * transp, with transp = (tempF * 0.7 + humidF * 0.3) * 2.5
TranspRise(dt, temp, humid) == dt * (490 * (temp - 10) + 90 * (90 - humid))

\* eVel[y] * dt * evap, with evap = (tempF * 0.8 + windF * 0.2) * 3.0
EvapRise(dt, temp, wind) == dt * (336 * (temp - 10) + 126 * wind)

\* the sideways step of a particle: vel[x] + windSpeed * 0.01 * dt
SideStep(dt, wind) == 2 + wind * dt

\* humidF = 1 - (humidity - 20) / 70
HumidF(humid) == Fraction(90 - humid, 70)

\* the transpiration loop body: rise, drift, recycle above 30 to an emitter
\* (the origin when the emitter list is empty)
TranspiredParticle(p, dt, temp, humid, wind, emitters) ==
    LET y == p.y + TranspRise(dt, temp, humid)
        x == Drifted(p.x, SideStep(dt, wind), p.origin)
        e == IF emitters = <<>> THEN [x |-> 0, y |-> 0] ELSE emitters[1]
    IN  IF y > EsmTranspCeiling
        THEN [x |-> e.x, y |-> e.y, origin |-> e.x]
        ELSE [x |-> x, y |-> y, origin |-> p.origin]

\* the evaporation loop body: rise, drift, recycle above 25 to a lake when
\* there is one
EvaporatedParticle(p, dt, temp, wind, lakes) ==
    LET y == p.y + EvapRise(dt, temp, wind)
        x == Drifted(p.x, SideStep(dt, wind), p.origin)
    IN  IF y > EsmEvapCeiling /\ lakes # <<>>
        THEN [x |-> lakes[1].x, y |-> EsmEvapSpawnY, origin |-> lakes[1].x]
        ELSE [x |-> x, y |-> y, origin |-> p.origin]

\* updateParticles(dt) on the pools ps
esmUpdateParticles(ps, dt, temp, humid, wind) ==
    [transpiration |-> [i \in DOMAIN ps.transpiration |->
        TranspiredParticle(ps.transpiration[i], dt, temp, humid, wind, treeEmitters)],
     evaporation |-> [i \in DOMAIN ps.evaporation |->
        EvaporatedParticle(ps.evaporation[i], dt, temp, wind, waterBodies)]]

\* c.group.position.x += windSpeed * 0.002
esmDriftedCloud(c, wind) == [c EXCEPT !.x = Drifted(c.x, wind \div 5, c.origin)]

\* what this.transpiration.material.opacity and
\* this.evaporation.material.opacity are set to by updateParticles
esmUpdatedOpacities(humid) ==
    [transpiration |-> HumidF(humid), evaporation |-> HumidF(humid)]

\* the cycle clock of old-script.js, which the other variants do not have
clock == <<initPc, cycleState, cycleTimer, stageShown, glow, notifyCount, progress,
           evapPool, elapsedTotal, fault>>

\* what no handler of the ESM variant writes
esmIdle == <<variant, sample, climateParams, terrain, clockTime, clock>>

\* one pool or the clouds are followed at a time
EsmSamples ==
    {[transpiration |-> 1, evaporation |-> 0, clouds |-> 0],
     [transpiration |-> 0, evaporation |-> 1, clouds |-> 0],
     [transpiration |-> 0, evaporation |-> 0, clouds |-> 1]}

\* the constructor: it creates the scene and ends with the first call of
\* animate(), whose clock.getDelta() returns 0
EsmConstructed(smp) ==
    /\ variant = "esm"
    /\ sample = smp
    /\ isPlaying = TRUE
    /\ temperature = 25
    /\ humidity = 50
    /\ windSpeed = 5
    /\ pools = esmUpdateParticles(esmCreateParticles(smp), 0, 25, 50, 5)
    /\ opacity = esmUpdatedOpacities(50)
    /\ clouds = [i \in 1..smp.clouds |-> esmDriftedCloud(esmCreateClouds(smp.clouds)[i], 5)]
    /\ lastEvent = "constructor"
    /\ initPc = "running"
    /\ cycleState = "EVAPORATION"
    /\ cycleTimer = 0
    /\ stageShown = "NONE"
    /\ glow = NoGlow
    /\ notifyCount = 0
    /\ progress = Zero
    /\ evapPool = <<>>
    /\ elapsedTotal = Untracked
    /\ fault = "none"
    /\ climateParams = NoClimate
    /\ terrain = <<>>
    /\ clockTime = NoClockTime

InitEsm == \E smp \in EsmSamples : EsmConstructed(smp)

\* a frame that does not read the pause flag
esmAnimateAlways(dt) ==
    /\ pools' = esmUpdateParticles(pools, dt, temperature, humidity, windSpeed)
    /\ opacity' = esmUpdatedOpacities(humidity)
    /\ clouds' = [i \in DOMAIN clouds |-> esmDriftedCloud(clouds[i], windSpeed)]
    /\ lastEvent' = "tick"
    /\ UNCHANGED <<isPlaying, temperature, humidity, windSpeed, esmIdle>>

\* animate(): one frame with clock delta dt
esmAnimate(dt) ==
    IF ~isPlaying
    THEN UNCHANGED vars
    ELSE /\ pools' = esmUpdateParticles(pools, dt, temperature, humidity, windSpeed)
         /\ opacity' = esmUpdatedOpacities(humidity)
         /\ clouds' = [i \in DOMAIN clouds |-> esmDriftedCloud(clouds[i], windSpeed)]
         /\ lastEvent' = "tick"
         /\ UNCHANGED <<isPlaying, temperature, humidity, windSpeed, esmIdle>>

\* the three sliders' input listeners
esmTemperatureInput(v) ==
    /\ temperature' = v
    /\ lastEvent' = "temperature"
    /\ UNCHANGED <<isPlaying, humidity, windSpeed, pools, opacity, clouds, esmIdle>>

esmHumidityInput(v) ==
    /\ humidity' = v
    /\ lastEvent' = "humidity"
    /\ UNCHANGED <<isPlaying, temperature, windSpeed, pools, opacity, clouds, esmIdle>>

esmWindInput(v) ==
    /\ windSpeed' = v
    /\ lastEvent' = "wind"
    /\ UNCHANGED <<isPlaying, temperature, humidity, pools, opacity, clouds, esmIdle>>

\* the toggle button's click listener
esmToggle ==
    /\ isPlaying' = ~isPlaying
    /\ lastEvent' = "toggle"
    /\ UNCHANGED <<temperature, humidity, windSpeed, pools, opacity, clouds, esmIdle>>

\* the reset button's click listener
esmReset ==
    /\ temperature' = 25
    /\ humidity' = 50
    /\ windSpeed' = 5
    /\ lastEvent' = "reset"
    /\ UNCHANGED <<isPlaying, pools, opacity, clouds, esmIdle>>

\* the resize listener: it writes the camera and the renderer size only
esmResize ==
    /\ lastEvent' = "camera"
    /\ UNCHANGED <<isPlaying, temperature, humidity, windSpeed, pools, opacity, clouds,
                   esmIdle>>

NextEsm ==
    \/ \E dt \in EsmDeltas : esmAnimate(dt)
    \/ \E v \in EsmTemperatures : esmTemperatureInput(v)
    \/ \E v \in EsmHumidities : esmHumidityInput(v)
    \/ \E v \in EsmWindSpeeds : esmWindInput(v)
    \/ esmToggle
    \/ esmReset
    \/ esmResize

SpecEsm == InitEsm /\ [][NextEsm]_vars

\* a frame of the ESM variant whose clock delta is positive
EsmPositiveFrame == \E dt \in EsmDeltas \ {0} : esmAnimate(dt)

\* the frame loop keeps running: animate() re-arms requestAnimationFrame
\* before anything else
SpecEsmLive == InitEsm /\ [][NextEsm]_vars /\ WF_vars(EsmPositiveFrame)

(***************************************************************************)
(* The classic variant (class WaterCycleSimulation with climateParams):    *)
(* lifetime-driven pools for evaporation, transpiration, precipitation     *)
(* and runoff, a terrain height function, trees and clouds.                *)
(*                                                                         *)
(* Units.  Lengths are counted in thousandths of a scene unit, the climate *)
(* parameters in tenths (evaporationRate 1.7 -> 17).  The sampled          *)
(* particles have no sideways velocity, except for the runoff, which is    *)
(* followed along the axis z = 0.                                          *)
(***************************************************************************)
Abs(n) == IF n < 0 THEN -n ELSE n
Max(a, b) == IF a > b THEN a ELSE b

ClimateDefaults ==
    [temperature |-> 150, temperatureChange |-> 0, precipitationIntensity |-> 10,
     evaporationRate |-> 10, iceMelting |-> 0, seaLevel |-> 0]

\* slider values: the defaults and the values loadClimateScenario sets
TemperatureChanges == {0, 35}
PrecipitationIntensities == {10, 15}
EvaporationRates == {10, 17}
IceMeltings == {0, 15}

\* Math.sin(x * 0.1) * Math.cos(z * 0.1) * 8
\*   + Math.sin(x * 0.05) * Math.cos(z * 0.05) * 15
\* at the sampled points, rounded to thousandths
TerrainWave(x, z) ==
    CASE <<x, z>> = <<0, 0>> -> 0
      [] <<x, z>> = <<15000, 0>> -> 18205
      [] <<x, z>> = <<20000, 0>> -> 19896
      [] <<x, z>> = <<26000, 0>> -> 18577
      [] <<x, z>> = <<-26000, 0>> -> -18577

\* if (Math.abs(x) < 20 && Math.abs(z) < 20) height *= 0.3
Valley(x, z, h) == IF Abs(x) < 20000 /\ Abs(z) < 20000 THEN (3 * h) \div 10 ELSE h

getTerrainHeight(x, z) == Max(Valley(x, z, TerrainWave(x, z)), -2000)

\* the height createTerrain writes for a vertex it reads as (x, z), with
\* the value `noise` of Math.random() * 2
createTerrainHeight(x, z, noise) ==
    Max(Valley(x, z, TerrainWave(x, z) + noise), -2000)

\* sampled vertices of the PlaneGeometry (the loop reads z from the third
\* component, which is 0 for every vertex of a plane) and sampled values
\* of Math.random() * 2
TerrainVertices == {0, 20000, 26000}
NoiseSamples == {0, 1000}

createTerrain(noise) == [x \in TerrainVertices |-> createTerrainHeight(x, 0, noise[x])]

\* createTrees: a tree is kept where the terrain is higher than 2; the
\* sampled tree stands at (15, 0)
createTrees(n) ==
    [i \in 1..n |-> [x |-> 15000, y |-> getTerrainHeight(15000, 0)]]

\* createClouds: x and z in [-50, 50), y in [20, 30); the sampled spots
\* are a cloud above the centre and a cloud on the lowest altitude above
\* the ridge
CloudSpots == {[x |-> 0, y |-> 25000], [x |-> 20000, y |-> 20000]}

classicCreateClouds(n, spot) ==
    [i \in 1..n |-> [x |-> spot.x, y |-> spot.y, origin |-> spot.x]]

\* sampled values of Math.sin(Date.now() * 0.0005 + index); a cloud is
\* followed within CloudWindow steps of 0.01 around its place
SineSamples == {-1, 0, 1}
CloudWindow == 2

\* sampled respawn points of a runoff particle, x in [-30, 30)
RunoffSpots == {0, 26000, -26000}

\* lifetimes a particle is created with: Math.random() * maxLifetime,
\* sampled two frames before the maximum
EvaporationMaxLifetime == 100
TranspirationMaxLifetime == 80
PrecipitationMaxLifetime == 60
RunoffMaxLifetime == 120

\* the flow velocity 0.1 towards the centre
FlowVelocity(x) == IF x > 0 THEN -100 ELSE IF x < 0 THEN 100 ELSE 0

\* initParticleSystems on the sampled pools
classicCreateParticles(smp, ts, cs) ==
    [evaporation |-> [i \in 1..smp.evaporation |->
                        [y |-> 500, life |-> EvaporationMaxLifetime - 2]],
     transpiration |-> [i \in 1..(smp.transpiration * Len(ts)) |->
                          [y |-> ts[1].y + 4000, life |-> TranspirationMaxLifetime - 2]],
     precipitation |-> [i \in 1..(smp.precipitation * Len(cs)) |->
                          [x |-> cs[1].x, y |-> cs[1].y, cloud |-> 1,
                           life |-> PrecipitationMaxLifetime - 2]],
     runoff |-> [i \in 1..smp.runoff |->
                   [x |-> 26000, y |-> getTerrainHeight(26000, 0) + 500,
                    vx |-> FlowVelocity(26000), life |-> RunoffMaxLifetime - 2]]]

\* a loop body that recycles on the altitude alone
EvaporationUpdatedByAltitude(p, rate) ==
    LET y == p.y + 5 * rate
        life == p.life + 1
    IN  IF y > 25000
        THEN [y |-> 500, life |-> 0]
        ELSE [y |-> y, life |-> life]

\* the evaporation loop body (upward velocity 0.05)
EvaporationUpdated(p, rate) ==
    LET y == p.y + 5 * rate
        life == p.life + 1
    IN  IF life > EvaporationMaxLifetime \/ y > 25000
        THEN [y |-> 500, life |-> 0]
        ELSE [y |-> y, life |-> life]

\* Math.floor(Math.random() * this.trees.length): an index of the list,
\* or 0 for the entry an empty list does not have
TreePicks(ts) == IF ts = <<>> THEN {0} ELSE DOMAIN ts

\* the transpiration loop body (upward velocity 0.03): the reset is
\* skipped when the picked tree does not exist
TranspirationUpdated(p, ts, pick) ==
    LET y == p.y + 30
        life == p.life + 1
    IN  IF (life > TranspirationMaxLifetime \/ y > 20000) /\ pick \in DOMAIN ts
        THEN [y |-> ts[pick].y + 4000, life |-> 0]
        ELSE [y |-> y, life |-> life]

\* the precipitation loop body (downward velocity 0.3): the particle
\* returns to the cloud its system belongs to
PrecipitationUpdated(p, intensity, cs) ==
    LET y == p.y - 30 * intensity
        life == p.life + 1
        terrainHeight == getTerrainHeight(p.x, 0)
    IN  IF life > PrecipitationMaxLifetime \/ y < terrainHeight + 1000
        THEN [p EXCEPT !.x = cs[p.cloud].x, !.y = cs[p.cloud].y, !.life = 0]
        ELSE [p EXCEPT !.y = y, !.life = life]

\* the runoff loop body on the axis z = 0, respawning at x = spot
RunoffUpdated(p, spot) ==
    LET x == p.x + p.vx
        y == p.y - 20
        life == p.life + 1
    IN  IF life > RunoffMaxLifetime \/ Abs(x) < 5000 \/ y < 0
        THEN [x |-> spot, y |-> getTerrainHeight(spot, 0) + 500,
              vx |-> FlowVelocity(spot), life |-> 0]
        ELSE [x |-> x, y |-> y, vx |-> p.vx, life |-> life]

\* an update that removes a runoff particle at the end of its lifetime
\* instead of respawning it
classicUpdateParticlesDropping(ps, params, ts, cs, pick, spot) ==
    [evaporation |-> [i \in DOMAIN ps.evaporation |->
        EvaporationUpdated(ps.evaporation[i], params.evaporationRate)],
     transpiration |-> [i \in DOMAIN ps.transpiration |->
        TranspirationUpdated(ps.transpiration[i], ts, pick)],
     precipitation |-> [i \in DOMAIN ps.precipitation |->
        PrecipitationUpdated(ps.precipitation[i], params.precipitationIntensity, cs)],
     runoff |-> SelectSeq([i \in DOMAIN ps.runoff |-> RunoffUpdated(ps.runoff[i], spot)],
                          LAMBDA q : q.life > 0)]

\* updateParticles() on the pools ps, for the random picks made
classicUpdateParticles(ps, params, ts, cs, pick, spot) ==
    [evaporation |-> [i \in DOMAIN ps.evaporation |->
        EvaporationUpdated(ps.evaporation[i], params.evaporationRate)],
     transpiration |-> [i \in DOMAIN ps.transpiration |->
        TranspirationUpdated(ps.transpiration[i], ts, pick)],
     precipitation |-> [i \in DOMAIN ps.precipitation |->
        PrecipitationUpdated(ps.precipitation[i], params.precipitationIntensity, cs)],
     runoff |-> [i \in DOMAIN ps.runoff |-> RunoffUpdated(ps.runoff[i], spot)]]

\* cloud.position.x += Math.sin(...) * 0.01
classicDriftedCloud(c, sine) == [c EXCEPT !.x = c.x + 10 * sine]

\* the sines sampled for a frame: the followed cloud stays in its window,
\* and stays in place while a precipitation particle is followed
Sines(smp, cs) ==
    {sine \in SineSamples :
        /\ smp.precipitation > 0 => sine = 0
        /\ \A i \in DOMAIN cs : Abs(cs[i].x + 10 * sine - cs[i].origin) <= 10 * CloudWindow}

\* what no handler of the classic variant writes
classicIdle == <<variant, sample, temperature, windSpeed, humidity, opacity,
                 terrain, clockTime, lastEvent, clock>>

\* one pool, the clouds or the terrain are followed at a time
ClassicSamples ==
    LET none == [evaporation |-> 0, transpiration |-> 0, precipitation |-> 0,
                 runoff |-> 0, trees |-> 0, clouds |-> 0, terrain |-> 0]
    IN  {[none EXCEPT !.evaporation = 1],
         [none EXCEPT !.transpiration = 1, !.trees = 1],
         [none EXCEPT !.precipitation = 1, !.clouds = 1],
         [none EXCEPT !.runoff = 1],
         [none EXCEPT !.clouds = 1],
         [none EXCEPT !.terrain = 1]}

\* the constructor up to its closing call of animate(), which is the first
\* frame
ClassicConstructed(smp, spot, noise) ==
    /\ variant = "classic"
    /\ sample = smp
    /\ isPlaying = TRUE
    /\ climateParams = ClimateDefaults
    /\ terrain = IF smp.terrain > 0 THEN createTerrain(noise) ELSE <<>>
    /\ clockTime = NoClockTime
    /\ clouds = classicCreateClouds(smp.clouds, spot)
    /\ pools = classicCreateParticles(smp, createTrees(smp.trees),
                                      classicCreateClouds(smp.clouds, spot))
    /\ opacity = <<>>
    /\ temperature = 0
    /\ windSpeed = 0
    /\ humidity = 0
    /\ lastEvent = "constructor"
    /\ initPc = "running"
    /\ cycleState = "EVAPORATION"
    /\ cycleTimer = 0
    /\ stageShown = "NONE"
    /\ glow = NoGlow
    /\ notifyCount = 0
    /\ progress = Zero
    /\ evapPool = <<>>
    /\ elapsedTotal = Untracked
    /\ fault = "none"

InitClassic ==
    \E smp \in ClassicSamples, spot \in CloudSpots,
       noise \in [TerrainVertices -> NoiseSamples] :
        ClassicConstructed(smp, spot, noise)

\* a frame that warms the climate while it moves the particles
classicAnimateWarming ==
    IF ~isPlaying
    THEN UNCHANGED vars
    ELSE \E sine \in Sines(sample, clouds), pick \in TreePicks(createTrees(sample.trees)),
            spot \in RunoffSpots :
             /\ clouds' = [i \in DOMAIN clouds |-> classicDriftedCloud(clouds[i], sine)]
             /\ pools' = classicUpdateParticles(pools, climateParams,
                              createTrees(sample.trees), clouds', pick, spot)
             /\ climateParams' = [climateParams EXCEPT !.temperatureChange = 35,
                                                       !.temperature = 185]
             /\ UNCHANGED <<isPlaying, classicIdle>>

\* animate(): one frame
classicAnimate ==
    IF ~isPlaying
    THEN UNCHANGED vars
    ELSE \E sine \in Sines(sample, clouds), pick \in TreePicks(createTrees(sample.trees)),
            spot \in RunoffSpots :
             /\ clouds' = [i \in DOMAIN clouds |-> classicDriftedCloud(clouds[i], sine)]
             /\ pools' = classicUpdateParticles(pools, climateParams,
                              createTrees(sample.trees), clouds', pick, spot)
             /\ UNCHANGED <<isPlaying, climateParams, classicIdle>>

\* the four sliders' input listeners
temperatureSlider(v) ==
    /\ climateParams' = [climateParams EXCEPT !.temperatureChange = v,
                                              !.temperature = 150 + v]
    /\ UNCHANGED <<isPlaying, pools, clouds, classicIdle>>

precipitationSlider(v) ==
    /\ climateParams' = [climateParams EXCEPT !.precipitationIntensity = v]
    /\ UNCHANGED <<isPlaying, pools, clouds, classicIdle>>

evaporationSlider(v) ==
    /\ climateParams' = [climateParams EXCEPT !.evaporationRate = v]
    /\ UNCHANGED <<isPlaying, pools, clouds, classicIdle>>

iceSlider(v) ==
    /\ climateParams' = [climateParams EXCEPT !.iceMelting = v]
    /\ UNCHANGED <<isPlaying, pools, clouds, classicIdle>>

classicTogglePlayPause ==
    /\ isPlaying' = ~isPlaying
    /\ UNCHANGED <<climateParams, pools, clouds, classicIdle>>

classicResetSimulation ==
    /\ climateParams' = ClimateDefaults
    /\ UNCHANGED <<isPlaying, pools, clouds, classicIdle>>

loadClimateScenario ==
    /\ climateParams' = [climateParams EXCEPT !.temperatureChange = 35,
                                              !.temperature = 185,
                                              !.precipitationIntensity = 15,
                                              !.evaporationRate = 17,
                                              !.iceMelting = 15]
    /\ UNCHANGED <<isPlaying, pools, clouds, classicIdle>>

NextClassic ==
    \/ classicAnimate
    \/ \E v \in TemperatureChanges : temperatureSlider(v)
    \/ \E v \in PrecipitationIntensities : precipitationSlider(v)
    \/ \E v \in EvaporationRates : evaporationSlider(v)
    \/ \E v \in IceMeltings : iceSlider(v)
    \/ classicTogglePlayPause
    \/ classicResetSimulation
    \/ loadClimateScenario

SpecClassic == InitClassic /\ [][NextClassic]_vars

(***************************************************************************)
(* The three variants side by side: a run is a run of one of them.         *)
(* old-script.js is followed with its evaporation particle or with a       *)
(* cloud, and without the account of the elapsed deltas.                   *)
(***************************************************************************)
OldSamples ==
    {[evaporation |-> 1, clouds |-> 0, rain |-> 0],
     [evaporation |-> 0, clouds |-> 1, rain |-> 0]}

InitAll ==
    \/ \E smp \in OldSamples : OldConstructed(smp, Untracked)
    \/ InitEsm
    \/ InitClassic

NextAll ==
    \/ variant = "old" /\ Next
    \/ variant = "esm" /\ NextEsm
    \/ variant = "classic" /\ NextClassic

SpecAll == InitAll /\ [][NextAll]_vars

(***************************************************************************)
(* The recycle rules on their own: updatePrecipitation of old-script.js    *)
(* and the two loops of the ESM updateParticles, applied once to a         *)
(* particle at any altitude with the source list (clouds, tree emitters,   *)
(* water bodies) empty or not.                                             *)
(***************************************************************************)
RainAltitudes == RainFloor..CloudBase

RecycleInputs ==
    /\ initPc = "running"
    /\ isPlaying = TRUE
    /\ cycleTimer = 0
    /\ stageShown = "NONE"
    /\ glow = NoGlow
    /\ notifyCount = 0
    /\ progress = Zero
    /\ evapPool = <<>>
    /\ elapsedTotal = Untracked
    /\ lastEvent = "inputs"
    /\ opacity = createOpacities
    /\ fault = "none"
    /\ climateParams = NoClimate
    /\ terrain = <<>>
    /\ clockTime = NoClockTime

InitRecycle ==
    /\ RecycleInputs
    /\ \/ /\ variant = "old"
          /\ cycleState = "PRECIPITATION"
          /\ temperature = 15
          /\ humidity = 0
          /\ windSpeed \in WindSpeeds
          /\ \E n \in {0, 1} :
                /\ sample = [evaporation |-> 0, clouds |-> n, rain |-> 1]
                /\ clouds = createClouds(n)
          /\ \E y \in RainAltitudes : pools = [rain |-> <<[x |-> 0, y |-> y]>>]
       \/ /\ variant = "esm"
          /\ cycleState = "EVAPORATION"
          /\ temperature \in EsmTemperatures
          /\ humidity \in EsmHumidities
          /\ windSpeed \in EsmWindSpeeds
          /\ clouds = <<>>
          /\ \E e \in {0, 1}, w \in {0, 1} :
                sample = [transpiration |-> 1, evaporation |-> 1, clouds |-> 0,
                          treeEmitters |-> e, waterBodies |-> w]
          /\ \E ty \in {treeEmitters[1].y, EsmTranspCeiling},
                ey \in {EsmEvapSpawnY, EsmEvapCeiling} :
                pools = [transpiration |-> <<[x |-> 0, y |-> ty, origin |-> 0]>>,
                         evaporation |-> <<[x |-> 0, y |-> ey, origin |-> 0]>>]

\* one call of updatePrecipitation(true, progress)
applyUpdatePrecipitation ==
    /\ variant = "old"
    /\ lastEvent = "inputs"
    /\ lastEvent' = "tick"
    /\ \E r \in updatePrecipitation(pools.rain, TRUE, windSpeed, clouds) :
          /\ pools' = [rain |-> r.pool]
          /\ fault' = r.fault
    /\ UNCHANGED <<initPc, isPlaying, temperature, windSpeed, cycleState, cycleTimer,
                   stageShown, glow, notifyCount, progress, evapPool, elapsedTotal,
                   opacity, clouds, otherVariants>>

\* one call of updateParticles(dt) with the lists this.treeEmitters and
\* this.waterBodies as drawn
applyEsmUpdateParticles(dt) ==
    /\ variant = "esm"
    /\ lastEvent = "inputs"
    /\ lastEvent' = "tick"
    /\ pools' =
          [transpiration |-> [i \in DOMAIN pools.transpiration |->
              TranspiredParticle(pools.transpiration[i], dt, temperature, humidity,
                  windSpeed, SubSeq(treeEmitters, 1, sample.treeEmitters))],
           evaporation |-> [i \in DOMAIN pools.evaporation |->
              EvaporatedParticle(pools.evaporation[i], dt, temperature, windSpeed,
                  SubSeq(waterBodies, 1, sample.waterBodies))]]
    /\ opacity' = esmUpdatedOpacities(humidity)
    /\ UNCHANGED <<isPlaying, temperature, humidity, windSpeed, clouds, fault, esmIdle>>

NextRecycle ==
    \/ applyUpdatePrecipitation
    \/ \E dt \in EsmDeltas : applyEsmUpdateParticles(dt)

SpecRecycle == InitRecycle /\ [][NextRecycle]_vars

(***************************************************************************)
(* One frame of old-script.js from any state of the running program: any   *)
(* phase, a timer inside the phase, an evaporation particle and a rain     *)
(* particle at any altitude of their range, one cloud.                     *)
(***************************************************************************)
TickTimers == {0, SmallDelta}
TickAltitudes == {EvapSpawnY, EvapCeiling \div 2, EvapCeiling}

InitTick ==
    /\ variant = "old"
    /\ sample = [evaporation |-> 1, clouds |-> 1, rain |-> 1]
    /\ initPc = "running"
    /\ isPlaying \in BOOLEAN
    /\ temperature \in Temperatures
    /\ windSpeed \in WindSpeeds
    /\ cycleState \in CycleStates
    /\ cycleTimer \in TickTimers
    /\ stageShown = cycleState
    /\ glow = Glows(cycleState, temperature)
    /\ notifyCount = 0
    /\ progress = Fraction(cycleTimer, cycleDurations[cycleState])
    /\ opacity = UpdatedOpacities(cycleState, progress)
    /\ \E y \in TickAltitudes : evapPool = <<y>>
    /\ \E y \in RainAltitudes : pools = [rain |-> <<[x |-> 0, y |-> y]>>]
    /\ clouds = createClouds(1)
    /\ elapsedTotal = Untracked
    /\ lastEvent = "inputs"
    /\ fault = "none"
    /\ humidity = 0
    /\ climateParams = NoClimate
    /\ terrain = <<>>
    /\ clockTime = NoClockTime

\* one call of animate()
applyAnimate ==
    /\ lastEvent = "inputs"
    /\ \E d \in Deltas : animate(d)

NextTick == applyAnimate

SpecTick == InitTick /\ [][NextTick]_vars

(***************************************************************************)
(* old-script.js with its THREE.Clock: the delta of a frame is the wall     *)
(* time since the previous clock.getDelta().  The run starts when init()   *)
(* has completed in a playing simulation, whose first frame started the    *)
(* clock.  No particle is followed.                                        *)
(***************************************************************************)
InitClock ==
    /\ variant = "old"
    /\ sample = [evaporation |-> 0, clouds |-> 0, rain |-> 0]
    /\ initPc = "running"
    /\ isPlaying = TRUE
    /\ temperature = 15
    /\ windSpeed = 10
    /\ cycleState = "EVAPORATION"
    /\ cycleTimer = 0
    /\ stageShown = "EVAPORATION"
    /\ glow = Glows("EVAPORATION", 15)
    /\ notifyCount = 1
    /\ progress = Zero
    /\ opacity = UpdatedOpacities("EVAPORATION", Zero)
    /\ evapPool = <<>>
    /\ pools = [rain |-> <<>>]
    /\ clouds = <<>>
    /\ elapsedTotal = Untracked
    /\ lastEvent = "init"
    /\ fault = "none"
    /\ humidity = 0
    /\ climateParams = NoClimate
    /\ terrain = <<>>
    /\ clockTime = NoClockTime

\* t seconds of wall time pass between two callbacks (at most HugeDelta
\* are followed between two reads of the clock)
elapse(t) ==
    /\ clockTime.elapsed + t <= HugeDelta
    /\ clockTime' = [elapsed |-> clockTime.elapsed + t,
                     paused |-> IF isPlaying THEN clockTime.paused
                                ELSE clockTime.paused + t]
    /\ UNCHANGED <<initPc, isPlaying, temperature, windSpeed, cycleState, cycleTimer,
                   stageShown, glow, notifyCount, progress, evapPool, elapsedTotal, lastEvent,
                   variant, sample, humidity, climateParams, terrain, oldScene>>

\* animate(): a paused frame returns before clock.getDelta(); a playing
\* frame reads the clock, which returns the time since its last read
clockedAnimate ==
    /\ initPc = "running"
    /\ IF ~isPlaying
       THEN UNCHANGED vars
       ELSE /\ updateWaterCycle(clockTime.elapsed, evapPool, pools.rain, clouds, 0)
            /\ clouds' = IF fault' = "none"
                         THEN [i \in DOMAIN clouds |->
                                 DriftedCloud(clouds[i], clockTime.elapsed, windSpeed)]
                         ELSE clouds
            /\ lastEvent' = "tick"
            /\ clockTime' = NoClockTime
            /\ UNCHANGED <<initPc, isPlaying, temperature, windSpeed,
                           variant, sample, humidity, climateParams, terrain>>

NextClock ==
    \/ \E t \in Deltas \ {0} : elapse(t)
    \/ clockedAnimate
    \/ togglePlayPause
    \/ resetSimulation

SpecClock == InitClock /\ [][NextClock]_vars

(***************************************************************************)
(* Properties.                                                             *)
(***************************************************************************)
\* the cyclic order as the specification states it
CycleOrder == <<"EVAPORATION", "CONDENSATION", "PRECIPITATION", "COLLECTION">>

PositionOf(s) == CHOOSE i \in DOMAIN CycleOrder : CycleOrder[i] = s

CyclicSuccessor(s) == CycleOrder[(PositionOf(s) % Len(CycleOrder)) + 1]

\* the step ran updateWaterCycle (a playing frame, or the first frame of init)
Ticked == lastEvent' \in {"tick", "init"}

\* a / b <= c / d for fractions with positive denominators
FracLeq(p, q) == p[1] * q[2] <= q[1] * p[2]

\* progress() = elapsed / duration(currentPhase)
CurrentProgress == Fraction(cycleTimer, cycleDurations[cycleState])

\* C1: cycleState is always one of the four phases, and every change of
\* cycleState made by updateWaterCycle moves it to its immediate successor in
\* the order EVAPORATION -> CONDENSATION -> PRECIPITATION -> COLLECTION ->
\* EVAPORATION.
C1_CyclicOrder ==
    /\ cycleState \in CycleStates
    /\ [][/\ cycleState' \in CycleStates
          /\ (Ticked /\ cycleState' # cycleState)
                => cycleState' = CyclicSuccessor(cycleState)]_vars

\* C1 witness: a tick has wrapped the cycle from COLLECTION to EVAPORATION.
C1_Witness ==
    /\ lastEvent = "tick"
    /\ notifyCount = 1
    /\ cycleState = "EVAPORATION"
    /\ elapsedTotal > cycleDurations["EVAPORATION"]

\* C2: a playing frame adds delta to the timer; exactly when the sum is
\* strictly greater than the duration of the current phase the timer becomes
\* 0, the phase becomes its successor and updateCycleStage is called once;
\* otherwise the phase is unchanged and updateCycleStage is not called.
C2_Advance ==
    [][\A d \in Deltas : (isPlaying /\ animate(d)) =>
          IF cycleTimer + d > cycleDurations[cycleState]
          THEN /\ cycleTimer' = 0
               /\ cycleState' = CyclicSuccessor(cycleState)
               /\ notifyCount' = 1
          ELSE /\ cycleTimer' = cycleTimer + d
               /\ cycleState' = cycleState
               /\ notifyCount' = 0]_vars

\* C2 witness: a tick has moved the cycle into PRECIPITATION with one
\* notification.
C2_Witness ==
    /\ lastEvent = "tick"
    /\ cycleState = "PRECIPITATION"
    /\ cycleTimer = 0
    /\ notifyCount = 1
    /\ stageShown = "PRECIPITATION"

\* C3 as stated: after every completed tick 0 <= elapsed < duration of the
\* current phase, and the progress handed to the particle updates is in
\* [0, 1).
C3_StrictlyBelowDuration ==
    lastEvent \in {"tick", "init"} =>
        /\ 0 <= cycleTimer
        /\ cycleTimer < cycleDurations[cycleState]
        /\ 0 <= progress[1]
        /\ progress[1] < progress[2]

\* C3 amended: after every completed tick 0 <= elapsed <= duration of the
\* current phase, and the progress handed to the particle updates is
\* elapsed / duration, in the closed interval [0, 1].
C3_AtMostDuration ==
    lastEvent \in {"tick", "init"} =>
        /\ 0 <= cycleTimer
        /\ cycleTimer <= cycleDurations[cycleState]
        /\ progress = CurrentProgress
        /\ 0 <= progress[1]
        /\ progress[1] <= progress[2]

\* C3 witness: a tick has left the timer exactly on the duration, and the
\* progress handed on is 1.
C3_Witness ==
    /\ lastEvent = "tick"
    /\ cycleTimer = cycleDurations[cycleState]
    /\ progress = <<1, 1>>

\* C4 as stated: when a tick carries the timer past the end of the phase,
\* the phase advances to its successor, the new timer is old timer + delta -
\* duration of the old phase, and updateCycleStage is called once.
C4_OvershootKept ==
    [][\A d \in Deltas :
          (isPlaying /\ animate(d) /\ cycleTimer + d > cycleDurations[cycleState]) =>
              /\ cycleState' = CyclicSuccessor(cycleState)
              /\ cycleTimer' = cycleTimer + d - cycleDurations[cycleState]
              /\ notifyCount' = 1]_vars

\* C5 as stated: starting from (EVAPORATION, 0), once the deltas ticked sum
\* to exactly the period (the sum of the four durations) the phase is
\* EVAPORATION again and the timer holds the residual, 0.
C5_Periodic ==
    elapsedTotal = Period =>
        /\ cycleState = "EVAPORATION"
        /\ cycleTimer = 0

\* the phase boundaries an accumulated time t crosses from phase s on
RECURSIVE BoundariesCrossed(_, _)
BoundariesCrossed(s, t) ==
    IF t > cycleDurations[s]
    THEN 1 + BoundariesCrossed(CyclicSuccessor(s), t - cycleDurations[s])
    ELSE 0

\* C6 as stated: in a single call, one notification is emitted for every
\* phase boundary the accumulated time crosses.
C6_NotifyPerBoundary ==
    [][\A d \in Deltas : (isPlaying /\ animate(d)) =>
          notifyCount' = BoundariesCrossed(cycleState, cycleTimer + d)]_vars

\* C7: a tick that keeps the time accumulated since the start of the phase
\* below the phase's duration leaves the phase unchanged and does not
\* decrease progress (elapsed / duration).
C7_MonotoneWithinPhase ==
    [][\A d \in Deltas :
          (isPlaying /\ animate(d) /\ cycleTimer + d < cycleDurations[cycleState]) =>
              /\ cycleState' = cycleState
              /\ FracLeq(CurrentProgress, CurrentProgress')
              /\ progress' = CurrentProgress']_vars

\* C7 witness: two ticks inside EVAPORATION, no transition.
C7_Witness ==
    /\ lastEvent = "tick"
    /\ cycleState = "EVAPORATION"
    /\ cycleTimer = 2 * SmallDelta
    /\ elapsedTotal = 2 * SmallDelta
    /\ notifyCount = 0

\* C8: the temperature and wind slider handlers and the play/pause toggle
\* (and the camera listeners) leave cycleState and cycleTimer unchanged; of
\* the external events only the reset changes them (the other changes are
\* made by frames).
C8_TimeTriggeredOnly ==
    [][/\ lastEvent' \in {"temperature", "wind", "toggle", "camera"}
            => UNCHANGED <<cycleState, cycleTimer>>
       /\ (cycleState' # cycleState \/ cycleTimer' # cycleTimer)
            => lastEvent' \in {"tick", "init", "reset"}]_vars

\* C8 witness: in the middle of a phase other than the first, paused by the
\* toggle, with both sliders moved off their defaults.
C8_Witness ==
    /\ lastEvent = "toggle"
    /\ ~isPlaying
    /\ temperature # 15
    /\ windSpeed # 10
    /\ cycleState = "CONDENSATION"
    /\ cycleTimer = SmallDelta

\* C9: immediately after resetSimulation cycleState is EVAPORATION and
\* cycleTimer is 0, whatever the state before.
C9_ResetClock ==
    lastEvent = "reset" => (cycleState = "EVAPORATION" /\ cycleTimer = 0)

\* C9 witness: a reset while paused, after ticks that had handed on a
\* progress of 1/2 and raised the evaporation pool.
C9_Witness ==
    /\ lastEvent = "reset"
    /\ ~isPlaying
    /\ progress = <<1, 2>>
    /\ evapPool # <<>>
    /\ evapPool # createEvaporationParticles

\* C10 as stated: after resetSimulation every particle of every pool is back
\* in its spawn domain (an evaporation particle at altitude 0.5).
C10_ResetPools ==
    lastEvent = "reset" => \A i \in DOMAIN evapPool : evapPool[i] = EvapSpawnY

\* a frame of the variant that runs
Frame ==
    \/ variant = "old" /\ \E d \in Deltas : animate(d)
    \/ variant = "esm" /\ \E dt \in EsmDeltas : esmAnimate(dt)
    \/ variant = "classic" /\ classicAnimate

\* the simulation state a frame can write
simulationState ==
    <<cycleState, cycleTimer, temperature, windSpeed, humidity, climateParams,
      clouds, pools, evapPool, opacity>>

\* C11: in each of the three variants a frame that finds the play flag false
\* leaves the cycle state and timer, the climate parameters, the cloud
\* positions and every particle position, lifetime and opacity unchanged
C11_PausedFrameNoOp == [][(~isPlaying /\ Frame) => UNCHANGED simulationState]_vars

\* paused while running, in the middle of a phase, with the evaporation
\* particle in flight: a frame is due and has state to preserve
C11_Witness ==
    /\ variant = "old"
    /\ initPc = "running"
    /\ ~isPlaying
    /\ cycleTimer > 0
    /\ evapPool # <<>>
    /\ evapPool[1] > EvapSpawnY

\* C12: when the program runs, stays playing and is not reset any more,
\* the positive frames that keep coming take the cycle into every one of
\* the four phases again and again
C12_EveryPhaseRecurs ==
    \A s \in CycleStates :
        <>[](initPc = "running" /\ isPlaying /\ lastEvent # "reset")
            => []<>(cycleState = s)

\* a frame has just taken the cycle from COLLECTION round to EVAPORATION
C12_Witness ==
    /\ lastEvent = "tick"
    /\ notifyCount = 1
    /\ cycleState = "EVAPORATION"
    /\ cycleTimer = 0
    /\ isPlaying

\* the followed particles of the ESM variant
EsmParticles ==
    {pools.transpiration[i] : i \in DOMAIN pools.transpiration}
    \cup {pools.evaporation[i] : i \in DOMAIN pools.evaporation}

\* C13: no particle permanently escapes: while the program stays playing,
\* every particle is again and again inside the followed region around
\* the place it starts from, because it is recycled
C13_NoEscape ==
    <>[]isPlaying => []<>(\A p \in EsmParticles : p.x < p.origin + DriftHorizon)

\* C14: every evaporation particle's altitude lies between its spawn
\* altitude and its ceiling, [0.5, 30] in old-script.js and [0.5, 25] in
\* the classic variant, after any updates and slider changes
C14_EvaporationAltitude ==
    /\ variant = "old" =>
          \A i \in DOMAIN evapPool :
              evapPool[i] >= EvapSpawnY /\ evapPool[i] <= EvapCeiling
    /\ variant = "classic" =>
          \A i \in DOMAIN pools.evaporation :
              pools.evaporation[i].y >= 500 /\ pools.evaporation[i].y <= 25000

\* a precipitation particle, or a runoff particle, that the last update
\* recycled (only a recycle sets a lifetime to 0)
JustRecycled(p) == p.life = 0

\* C15 (precipitation): a particle respawned at its cloud is not recycled
\* again by the very next update
C15_PrecipitationSettles ==
    variant = "classic" =>
        \A i \in DOMAIN pools.precipitation :
            JustRecycled(pools.precipitation[i]) =>
                ~JustRecycled(PrecipitationUpdated(pools.precipitation[i],
                                  climateParams.precipitationIntensity, clouds))

\* C15 (runoff): a particle respawned at a random (x, z) is not recycled
\* again by the very next update
C15_RunoffSettles ==
    variant = "classic" =>
        \A i \in DOMAIN pools.runoff : \A spot \in RunoffSpots :
            JustRecycled(pools.runoff[i]) =>
                ~JustRecycled(RunoffUpdated(pools.runoff[i], spot))

\* C15: recycle idempotence in the classic variant: the update that follows
\* a recycle does not recycle the particle again
C15_RecycleIdempotent == C15_PrecipitationSettles /\ C15_RunoffSettles

\* C16: a recycle rule that picks from an empty source list raises no
\* exception and leaves no particle beyond its recycle threshold (the
\* particle is put on a default spawn point): rain with no cloud, ESM
\* transpiration with no tree emitter, ESM evaporation with no water body
C16_EmptySourceHandled ==
    lastEvent = "tick" =>
        /\ (variant = "old" /\ sample.clouds = 0) =>
              /\ fault = "none"
              /\ \A i \in DOMAIN pools.rain : pools.rain[i].y >= RainFloor
        /\ (variant = "esm" /\ sample.treeEmitters = 0) =>
              \A i \in DOMAIN pools.transpiration :
                  pools.transpiration[i].y <= EsmTranspCeiling
        /\ (variant = "esm" /\ sample.waterBodies = 0) =>
              \A i \in DOMAIN pools.evaporation :
                  pools.evaporation[i].y <= EsmEvapCeiling

\* C17: the height createTerrain writes into the mesh for a vertex equals
\* getTerrainHeight at that vertex
C17_MeshMatchesQuery ==
    variant = "classic" =>
        \A x \in DOMAIN terrain : terrain[x] = getTerrainHeight(x, 0)

\* k * Math.sin(f * Math.PI) is non-zero unless f is a whole number
NonZeroOpacity(f) == f[2] # 1

\* C18 (evaporation): the evaporation material is visible only in EVAPORATION
C18_EvaporationOpacity ==
    (variant = "old" /\ NonZeroOpacity(opacity.evaporation))
        => cycleState = "EVAPORATION"

\* C18 (rain): the rain material is visible only in PRECIPITATION
C18_RainOpacity ==
    (variant = "old" /\ NonZeroOpacity(opacity.rain))
        => cycleState = "PRECIPITATION"

\* C18: in old-script.js the opacity of the evaporation pool is non-zero
\* only in EVAPORATION and that of the rain pool only in PRECIPITATION,
\* after any interleaving of ticks, pause toggles and resets
C18_OpacityFollowsPhase == C18_EvaporationOpacity /\ C18_RainOpacity

\* the number of particles of every pool
PoolSizes ==
    [evaporation |-> Len(evapPool), others |-> [k \in DOMAIN pools |-> Len(pools[k])]]

\* C19: once the pools are created, no step (tick, recycle, slider change,
\* reset, scenario load) adds or removes a particle or a pool
C19_PoolSizeConstant == [][initPc = "running" => PoolSizes' = PoolSizes]_vars

\* a runoff particle of the classic variant has just been recycled in place
C19_Witness ==
    /\ variant = "classic"
    /\ Len(pools.runoff) = 1
    /\ pools.runoff[1].life = 0

\* the parameter record of each variant: this.params, this.climateParams
parameters == <<temperature, windSpeed, humidity, climateParams>>

\* C20: a frame (animate and every update it calls) leaves every field of
\* the climate parameters unchanged, in all three variants
C20_FrameReadsParameters == [][Frame => UNCHANGED parameters]_vars

\* a frame of the classic variant has moved an evaporation particle by the
\* raised evaporation rate 1.7
C20_Witness ==
    /\ variant = "classic"
    /\ climateParams.evaporationRate = 17
    /\ pools.evaporation = <<[y |-> 585, life |-> 1]>>

\* a frame of old-script.js
OldFrame == variant = "old" /\ \E d \in Deltas : animate(d)

\* C21: a tick of old-script.js changes evaporation positions only when it
\* ends in EVAPORATION and rain positions only when it ends in
\* PRECIPITATION; a tick that ends in CONDENSATION or COLLECTION changes no
\* particle position
C21_PhaseGating ==
    [][OldFrame =>
          /\ (evapPool' # evapPool => cycleState' = "EVAPORATION")
          /\ (pools' # pools => cycleState' = "PRECIPITATION")]_vars

\* a tick has ended in PRECIPITATION and moved the rain particle one step
\* down from the cloud base, with the evaporation particle left half way up
C21_Witness ==
    /\ lastEvent = "tick"
    /\ cycleState = "PRECIPITATION"
    /\ pools.rain = <<[x |-> 0, y |-> CloudBase - RainFall]>>
    /\ windSpeed = 0
    /\ evapPool = <<EvapCeiling \div 2>>

\* C22: once init has completed, the stage the UI shows is the current
\* cycleState, after any ticks, slider inputs, pause toggles and resets
C22_StageShownIsState == initPc = "running" => stageShown = cycleState

\* a reset has taken a paused simulation from the middle of a phase back
\* to EVAPORATION, and the UI shows it
C22_Witness ==
    /\ initPc = "running"
    /\ lastEvent = "reset"
    /\ ~isPlaying
    /\ progress[2] # 1
    /\ progress # <<1, 2>>
    /\ stageShown = "EVAPORATION"

\* C23: with at least one cloud, after updatePrecipitation every rain
\* particle of old-script.js has y >= -10
C23_RainFloor ==
    (variant = "old" /\ lastEvent = "tick" /\ clouds # <<>>)
        => \A i \in DOMAIN pools.rain : pools.rain[i].y >= RainFloor

\* updatePrecipitation has put the rain particle back on the altitude of
\* the cloud
C23_Witness ==
    /\ variant = "old"
    /\ lastEvent = "tick"
    /\ clouds # <<>>
    /\ windSpeed = 10
    /\ pools.rain = <<[x |-> clouds[1].x, y |-> clouds[1].y]>>

\* userData.maxLifetime of the systems of each pool
maxLifetime ==
    [evaporation |-> EvaporationMaxLifetime, transpiration |-> TranspirationMaxLifetime,
     precipitation |-> PrecipitationMaxLifetime, runoff |-> RunoffMaxLifetime]

\* every lifetime counter of the classic variant is within its pool's range
LifetimesInRange ==
    variant = "classic" =>
        \A k \in DOMAIN pools : \A i \in DOMAIN pools[k] :
            pools[k][i].life >= 0 /\ pools[k][i].life <= maxLifetime[k]

\* a frame of the classic variant either recycles a particle or makes it
\* one tick older
LifetimesCount ==
    (variant = "classic" /\ classicAnimate) =>
        \A k \in DOMAIN pools : \A i \in DOMAIN pools[k] :
            pools'[k][i].life = 0 \/ pools'[k][i].life = pools[k][i].life + 1
            \/ pools'[k][i] = pools[k][i]

\* C24: in the classic variant every lifetime counter stays within
\* 0..maxLifetime of its pool, and a tick that does not recycle a particle
\* makes it one older, so every particle of every pool is recycled within
\* maxLifetime + 1 consecutive ticks whatever the climate parameters are
C24_LifetimeBounded == []LifetimesInRange /\ [][LifetimesCount]_vars

\* an evaporation particle has lived its whole lifetime since its last
\* recycle and is recycled by the next tick
C24_Witness ==
    /\ variant = "classic"
    /\ isPlaying
    /\ pools.evaporation = <<[y |-> 500 + 50 * EvaporationMaxLifetime,
                               life |-> EvaporationMaxLifetime]>>

\* C25: time spent paused does not advance the simulation: the delta a
\* playing frame of old-script.js takes from the clock contains no time
\* that passed while isPlaying was false
C25_PausedTimeNotTicked ==
    [][(isPlaying /\ clockedAnimate) => clockTime.paused = 0]_vars

\* C26: start-up of old-script.js always completes: no step of init()
\* before animate() fails and leaves the simulation never started
C26_InitNeverFails == initPc # "failed"

\* C27: in old-script.js the cloud opacity is above its base value 0.6
\* only in CONDENSATION: after a tick that ends in another phase it is the
\* base value
C27_CondensationConfined ==
    (variant = "old" /\ lastEvent = "tick" /\ cycleState # "CONDENSATION")
        => ~NonZeroOpacity(opacity.clouds)

\* C28: in every state of old-script.js after init the solid label glows
\* iff params.temperature < 0, the liquid label iff cycleState is
\* PRECIPITATION or COLLECTION, and the gas label iff cycleState is
\* EVAPORATION or CONDENSATION
C28_GlowsReflectState ==
    (variant = "old" /\ initPc = "running") => glow = Glows(cycleState, temperature)
====
